---- MODULE Spec2Model ----
(***************************************************************************)
(* A model of subtitle-generator's main.py: the time codec                 *)
(* (convert_to_srt_time, Subtitle.parse_time_range, Subtitle.time_to_str), *)
(* the cue model and format codec (Subtitle.from_srt_block, to_srt_block,  *)
(* parse_srt), the fragment coalescer (create_srt_content), the track      *)
(* merger (merge_srt_content) and the output step (process_directory).     *)
(*                                                                         *)
(* Text is a sequence of characters, each the code point ord() gives it,    *)
(* so that formatting, splitting, stripping and slicing are computed       *)
(* character by character as the Python string methods compute them, for   *)
(* every character a str can hold.                                         *)
(***************************************************************************)
EXTENDS Integers, Sequences, FiniteSets, TLC

(***************************************************************************)
(* Python str primitives                                                   *)
(***************************************************************************)
\* F(v), with v evaluated once and F applied to its value.
With(v, F(_)) == CHOOSE result \in {F(x) : x \in {v}} : TRUE

\* The ASCII characters U+0020 to U+005F, in order.
Printable ==
  <<" ", "!", "\"", "#", "$", "%", "&", "'", "(", ")", "*", "+",
     ",", "-", ".", "/", "0", "1", "2", "3", "4", "5", "6", "7",
     "8", "9", ":", ";", "<", "=", ">", "?", "@", "A", "B", "C",
     "D", "E", "F", "G", "H", "I", "J", "K", "L", "M", "N", "O",
     "P", "Q", "R", "S", "T", "U", "V", "W", "X", "Y", "Z", "[",
     "\\", "]", "^", "_" >>

\* The ASCII characters U+0061 to U+007E, in order.
Lowercase ==
  <<"a", "b", "c", "d", "e", "f", "g", "h", "i", "j", "k", "l",
     "m", "n", "o", "p", "q", "r", "s", "t", "u", "v", "w", "x",
     "y", "z", "{", "|", "}", "~" >>

\* ord(c) for an ASCII character written as a literal.
ord(c) ==
  IF c = "\t" THEN 9
  ELSE IF c = "\n" THEN 10
  ELSE IF c = "\f" THEN 12
  ELSE IF c = "\r" THEN 13
  ELSE IF \E i \in DOMAIN Printable : Printable[i] = c
    THEN 31 + CHOOSE i \in DOMAIN Printable : Printable[i] = c
  ELSE 96 + CHOOSE i \in DOMAIN Lowercase : Lowercase[i] = c

\* The str whose characters are the literals of chars.
Text(chars) == [i \in 1..Len(chars) |-> ord(chars[i])]

NL == ord("\n")
CR == ord("\r")
SP == ord(" ")
Zero == ord("0")

\* The characters str.isspace() holds of, which str.strip() removes: U+0009
\* to U+000D, U+001C to U+001F, the space, U+0085, U+00A0, U+1680, U+2000 to
\* U+200A, U+2028, U+2029, U+202F, U+205F, U+3000.
Whitespace ==
  (9..13) \cup (28..31) \cup {SP, 133, 160, 5760} \cup (8192..8202)
    \cup {8232, 8233, 8239, 8287, 12288}

\* The digits "0" to "9": what [0-9] matches and str.format writes.
AsciiDigits == Zero..ord("9")

\* The zero of every script's decimal digits (Unicode category Nd); its
\* digits one to nine follow it.
DigitZeros ==
  { Zero,
    1632, 1776, 1984, 2406, 2534, 2662, 2790, 2918, 3046, 3174,
    3302, 3430, 3558, 3664, 3792, 3872, 4160, 4240, 6112, 6160,
    6470, 6608, 6784, 6800, 6992, 7088, 7232, 7248, 42528, 43216,
    43264, 43472, 43504, 43600, 44016, 65296, 66720, 68912, 69734, 69872,
    69942, 70096, 70384, 70736, 70864, 71248, 71360, 71472, 71904, 72016,
    72784, 73040, 73120, 92768, 92864, 93008, 120782, 120792, 120802, 120812,
    120822, 123200, 123632, 125264, 130032 }

\* The characters \d matches and int() reads: every decimal digit.
Digits == UNION {zero..(zero + 9) : zero \in DigitZeros}

\* The value int() gives a decimal digit.
DigitVal(c) == c - (CHOOSE zero \in DigitZeros : c \in zero..(zero + 9))

\* A failed call: the exception that leaves the function.
Raise(exc) == [ok |-> FALSE, val |-> <<>>, exc |-> exc]
\* A call that returned val.
Return(val) == [ok |-> TRUE, val |-> val, exc |-> "none"]

\* str(n) for an int n >= 0.
RECURSIVE IntToStr(_)
IntToStr(number) ==
  With(number, LAMBDA n :
    IF n < 10 THEN <<Zero + n>>
    ELSE IntToStr(n \div 10) \o <<Zero + (n % 10)>>)

\* "{:0w}".format(n) for the digits of n: zero-padded on the left to at
\* least w characters.
ZeroPad(digits, w) ==
  With(digits, LAMBDA s : [i \in 1..(w - Len(s)) |-> Zero] \o s)

\* int(s) for the first k characters of a string of decimal digits.
RECURSIVE StrToIntUpTo(_, _)
StrToIntUpTo(s, k) ==
  IF k = 0 THEN 0 ELSE 10 * StrToIntUpTo(s, k - 1) + DigitVal(s[k])

\* int(s) for a string of decimal digits.
StrToInt(digits) == With(digits, LAMBDA s : StrToIntUpTo(s, Len(s)))

IsDigits(s) == \A i \in 1..Len(s) : s[i] \in Digits

\* sep occurs in s at position i.
MatchAt(s, sep, i) ==
  /\ i + Len(sep) - 1 <= Len(s)
  /\ \A k \in 1..Len(sep) : s[i + k - 1] = sep[k]

\* The positions where sep occurs in s.
Occurrences(s, sep) == {j \in 1..Len(s) : MatchAt(s, sep, j)}

\* s.split(sep) from position i on, given the occurrences of sep: the
\* pieces between the non-overlapping occurrences, taken left to right.
RECURSIVE SplitFrom(_, _, _, _)
SplitFrom(s, sep, found, i) ==
  With({j \in found : j >= i}, LAMBDA rest :
    IF rest = {} THEN <<SubSeq(s, i, Len(s))>>
    ELSE With(CHOOSE j \in rest : \A k \in rest : j <= k, LAMBDA j :
      <<SubSeq(s, i, j - 1)>> \o SplitFrom(s, sep, found, j + Len(sep))))

Split(string, sep) ==
  With(string, LAMBDA s :
    With(Occurrences(s, sep), LAMBDA found : SplitFrom(s, sep, found, 1)))

\* s.strip(): leading and trailing whitespace removed.
Strip(string) ==
  With(string, LAMBDA s :
    IF \A i \in 1..Len(s) : s[i] \in Whitespace THEN <<>>
    ELSE SubSeq(s,
           CHOOSE i \in 1..Len(s) :
             s[i] \notin Whitespace /\ \A j \in 1..(i - 1) : s[j] \in Whitespace,
           CHOOSE i \in 1..Len(s) :
             s[i] \notin Whitespace
               /\ \A j \in (i + 1)..Len(s) : s[j] \in Whitespace))

\* sep.join(parts) for the parts from the k-th on.
RECURSIVE JoinFrom(_, _, _)
JoinFrom(parts, sep, k) ==
  IF k > Len(parts) THEN <<>>
  ELSE IF k = Len(parts) THEN parts[k]
  ELSE parts[k] \o sep \o JoinFrom(parts, sep, k + 1)

\* sep.join(parts)
Join(strings, sep) == With(strings, LAMBDA parts : JoinFrom(parts, sep, 1))

\* ''.join(parts)
Concat(strings) == Join(strings, <<>>)

\* The separators of a time range and of the fields of a time.
Arrow == Text(<<" ", "-", "-", ">", " ">>)
Colon == Text(<<":">>)
Comma == Text(<<",">>)

(***************************************************************************)
(* Time codec                                                              *)
(***************************************************************************)
\* A duration in seconds is [sec, us]: whole seconds and microseconds, the
\* resolution datetime.timedelta keeps.
\* datetime.timedelta(seconds=x): normalised to days, seconds, microseconds.
timedelta(x) ==
  [days |-> x.sec \div 86400, seconds |-> x.sec % 86400, microseconds |-> x.us]

convert_to_srt_time(time_in_seconds) ==
  With(timedelta(time_in_seconds), LAMBDA formatted_time :
    LET hours0 == formatted_time.seconds \div 3600
        remainder == formatted_time.seconds % 3600
        minutes == remainder \div 60
        seconds == remainder % 60
        hours == hours0 + formatted_time.days * 24
        milliseconds == formatted_time.microseconds \div 1000
    IN ZeroPad(IntToStr(hours), 2) \o Colon \o ZeroPad(IntToStr(minutes), 2)
         \o Colon \o ZeroPad(IntToStr(seconds), 2) \o Comma
         \o ZeroPad(IntToStr(milliseconds), 3))

\* A one- or two-digit field of strptime: \d, or one of firsts and \d.
FieldOk(field, firsts) ==
  With(field, LAMBDA s :
    \/ Len(s) = 1 /\ s[1] \in Digits
    \/ Len(s) = 2 /\ s[1] \in firsts /\ s[2] \in Digits)

\* %H: 2[0-3]|[0-1]\d|\d
HourOk(field) ==
  \/ FieldOk(field, ord("0")..ord("1"))
  \/ Len(field) = 2 /\ field[1] = ord("2") /\ field[2] \in ord("0")..ord("3")

\* %M: [0-5]\d|\d
MinuteOk(field) == FieldOk(field, ord("0")..ord("5"))

\* %S: 6[0-1]|[0-5]\d|\d, and a second of 60 or 61 is refused when the
\* datetime is built.
SecondOk(field) ==
  /\ \/ FieldOk(field, ord("0")..ord("5"))
     \/ Len(field) = 2 /\ field[1] = ord("6") /\ field[2] \in ord("0")..ord("1")
  /\ StrToInt(field) <= 59

\* %f: [0-9]{1,6}
FractionOk(field) ==
  /\ Len(field) \in 1..6
  /\ \A i \in 1..Len(field) : field[i] \in AsciiDigits

\* The digits of %f read as a fraction of a second: zero-padded on the
\* right to microseconds.
PadRight(digits, w) ==
  With(digits, LAMBDA s : s \o [i \in 1..(w - Len(s)) |-> Zero])

\* datetime.datetime.strptime(s, '%H:%M:%S,%f').time()
strptime(string) ==
  With(Split(string, Colon), LAMBDA hms :
    IF Len(hms) # 3 THEN Raise("ValueError")
    ELSE With(Split(hms[3], Comma), LAMBDA sf :
      IF Len(sf) # 2 THEN Raise("ValueError")
      ELSE IF /\ HourOk(hms[1])
              /\ MinuteOk(hms[2])
              /\ SecondOk(sf[1])
              /\ FractionOk(sf[2])
           THEN Return([hour |-> StrToInt(hms[1]),
                        minute |-> StrToInt(hms[2]),
                        second |-> StrToInt(sf[1]),
                        microsecond |-> StrToInt(PadRight(sf[2], 6))])
           ELSE Raise("ValueError")))

\* Subtitle.parse_time_range
parse_time_range(time_range) ==
  With(Split(time_range, Arrow), LAMBDA parts :
    IF Len(parts) # 2 THEN Raise("ValueError")
    ELSE With(strptime(Strip(parts[1])), LAMBDA start :
      IF ~start.ok THEN start
      ELSE With(strptime(Strip(parts[2])), LAMBDA end :
        IF ~end.ok THEN end ELSE Return(<<start.val, end.val>>))))

\* Subtitle.time_to_str: strftime('%H:%M:%S,%f')[:-3]
time_to_str(time) ==
  With(ZeroPad(IntToStr(time.hour), 2) \o Colon
         \o ZeroPad(IntToStr(time.minute), 2) \o Colon
         \o ZeroPad(IntToStr(time.second), 2) \o Comma
         \o ZeroPad(IntToStr(time.microsecond), 6),
       LAMBDA full : SubSeq(full, 1, Len(full) - 3))

\* datetime.time ordering: by hour, minute, second, microsecond.
TimeLT(a, b) ==
  \/ a.hour < b.hour
  \/ a.hour = b.hour /\ a.minute < b.minute
  \/ a.hour = b.hour /\ a.minute = b.minute /\ a.second < b.second
  \/ a.hour = b.hour /\ a.minute = b.minute /\ a.second = b.second
       /\ a.microsecond < b.microsecond

TimeLE(a, b) == a = b \/ TimeLT(a, b)

(***************************************************************************)
(* Cue model and format codec                                              *)
(***************************************************************************)
\* A Subtitle is [index, start, end, text].  Its index is either the text
\* token read from a block (a str) or the number assigned by re-indexing
\* (an int); repr is what f"{index}" renders.
StrIndex(token) == [type |-> "str", repr |-> token]
IntIndex(i) == [type |-> "int", repr |-> IntToStr(i)]

Subtitle(index, start, end, text) ==
  [index |-> index, start |-> start, end |-> end, text |-> text]

\* from_srt_block with lines[2] for lines[2:]: only the first line of the
\* text is kept.
from_srt_block_FirstLine(block) ==
  With(Split(Strip(block), <<NL>>), LAMBDA lines :
    IF Len(lines) < 2 THEN Raise("IndexError")
    ELSE With(parse_time_range(lines[2]), LAMBDA range :
      IF ~range.ok THEN range
      ELSE Return(Subtitle(StrIndex(lines[1]), range.val[1], range.val[2],
                           IF Len(lines) < 3 THEN <<>> ELSE Strip(lines[3])))))

\* Subtitle.from_srt_block
from_srt_block(block) ==
  With(Split(Strip(block), <<NL>>), LAMBDA lines :
    IF Len(lines) < 2 THEN Raise("IndexError")
    ELSE With(parse_time_range(lines[2]), LAMBDA range :
      IF ~range.ok THEN range
      ELSE Return(Subtitle(StrIndex(lines[1]), range.val[1], range.val[2],
                           Strip(Join(SubSeq(lines, 3, Len(lines)), <<NL>>))))))

\* Subtitle.to_srt_block
to_srt_block(sub) ==
  sub.index.repr \o <<NL>> \o time_to_str(sub.start) \o Arrow
    \o time_to_str(sub.end) \o <<NL>> \o sub.text \o <<NL>>

\* [from_srt_block(block) for block in blocks if block.strip()] for the
\* blocks from the k-th on: the first block that fails to parse raises.
RECURSIVE ParseBlocksFrom(_, _)
ParseBlocksFrom(blocks, k) ==
  IF k > Len(blocks) THEN Return(<<>>)
  ELSE IF Strip(blocks[k]) = <<>> THEN ParseBlocksFrom(blocks, k + 1)
  ELSE With(from_srt_block(blocks[k]), LAMBDA first :
    IF ~first.ok THEN first
    ELSE With(ParseBlocksFrom(blocks, k + 1), LAMBDA rest :
      IF ~rest.ok THEN rest ELSE Return(<<first.val>> \o rest.val)))

parse_srt(srt_content) ==
  With(Split(srt_content, <<NL, NL>>), LAMBDA blocks : ParseBlocksFrom(blocks, 1))

\* "\n\n".join(sub.to_srt_block() for sub in subtitles)
JoinBlocks(subtitles) ==
  With(subtitles, LAMBDA subs :
    Join([i \in DOMAIN subs |-> to_srt_block(subs[i])], <<NL, NL>>))

(***************************************************************************)
(* Track merger                                                            *)
(***************************************************************************)
\* The test of line 114 with <= for <: cues that only touch count as
\* overlapping.
Overlaps_Touching(sub, sub2) ==
  TimeLE(sub.start, sub2.end) /\ TimeLE(sub2.start, sub.end)

\* The test of line 114: sub overlaps sub2.
Overlaps(sub, sub2) == TimeLT(sub.start, sub2.end) /\ TimeLT(sub2.start, sub.end)

\* [sub for sub in subs if not overlap], for the subs from the k-th on.
RECURSIVE RemoveOverlappingFrom(_, _, _)
RemoveOverlappingFrom(subs, sub2, k) ==
  IF k > Len(subs) THEN <<>>
  ELSE IF Overlaps(subs[k], sub2) THEN RemoveOverlappingFrom(subs, sub2, k + 1)
  ELSE <<subs[k]>> \o RemoveOverlappingFrom(subs, sub2, k + 1)

RemoveOverlapping(subs, sub2) == RemoveOverlappingFrom(subs, sub2, 1)

\* One step of a stable sort by start: sub goes after every element of the
\* sorted list whose start is not later than its own.
InsertByStart(sorted, sub) ==
  With({k \in 1..Len(sorted) : TimeLT(sub.start, sorted[k].start)}, LAMBDA later :
    With(IF later = {} THEN Len(sorted) + 1
         ELSE CHOOSE k \in later : \A j \in later : k <= j, LAMBDA at :
      SubSeq(sorted, 1, at - 1) \o <<sub>> \o SubSeq(sorted, at, Len(sorted))))

\* sorted(subs, key=lambda sub: sub.start) for the first k of subs: stable.
RECURSIVE SortByStartUpTo(_, _)
SortByStartUpTo(subs, k) ==
  IF k = 0 THEN <<>>
  ELSE With(SortByStartUpTo(subs, k - 1), LAMBDA sorted :
    InsertByStart(sorted, subs[k]))

SortByStart(subs) == SortByStartUpTo(subs, Len(subs))

\* sub.index = i for i = 1, 2, ...
Reindex(subs) == [i \in 1..Len(subs) |-> [subs[i] EXCEPT !.index = IntIndex(i)]]

\* The body of the loop over subtitles2, lines 113-121.
MergeOne(merged_subtitles, sub2) ==
  With(RemoveOverlapping(merged_subtitles, sub2) \o <<sub2>>, LAMBDA kept :
    With(SortByStart(kept), LAMBDA sorted : Reindex(sorted)))

\* The loop over subtitles2 from its k-th element on.
RECURSIVE MergeLoop(_, _, _)
MergeLoop(merged_subtitles, subtitles2, k) ==
  IF k > Len(subtitles2) THEN merged_subtitles
  ELSE With(MergeOne(merged_subtitles, subtitles2[k]), LAMBDA merged :
    MergeLoop(merged, subtitles2, k + 1))

merge_srt_content(srt1_content, srt2_content) ==
  With(parse_srt(srt1_content), LAMBDA subtitles1 :
    IF ~subtitles1.ok THEN subtitles1
    ELSE With(parse_srt(srt2_content), LAMBDA subtitles2 :
      IF ~subtitles2.ok THEN subtitles2
      ELSE Return(JoinBlocks(MergeLoop(subtitles1.val, subtitles2.val, 1)))))

(***************************************************************************)
(* Fragment coalescer: the rendering of one entry                          *)
(***************************************************************************)
generate_subtitle_entry(index, start_time, end_time, text) ==
  IntToStr(index) \o <<NL>> \o convert_to_srt_time(start_time) \o Arrow
    \o convert_to_srt_time(end_time) \o <<NL>> \o text \o <<NL, NL>>

(***************************************************************************)
(* Bounds and input domains                                                *)
(***************************************************************************)
\* Cue and fragment times are whole seconds 0..MaxTime.
MaxTime == 1
\* The most cues the two tracks handed to the merger hold together.
MaxCues == 3

\* The text of the i-th cue of an input track.
CueText(i) == IF i % 2 = 1 THEN Text(<<"a">>) ELSE Text(<<"b">>)
Texts == {CueText(1), CueText(2)}
Seconds == 0..MaxTime
Duration(t) == [sec |-> t, us |-> 0]
TimeOfDay(t) == [hour |-> 0, minute |-> 0, second |-> t, microsecond |-> 0]

\* The (start, end) of a cue before it is rendered, start <= end.
Intervals == {c \in [start : Seconds, end : Seconds] : c.start <= c.end}

\* The index tokens of an existing file are i + shift: 1..n, or those of a
\* file numbered otherwise.
IndexShifts == {0, 6}

\* The text of an existing track file: blocks joined by a blank line and
\* stripped once, as process_directory wrote it.
ExistingFile(raw, shift) ==
  Strip(JoinBlocks([i \in 1..Len(raw) |->
    Subtitle(StrIndex(IntToStr(i + shift)), TimeOfDay(raw[i].start),
             TimeOfDay(raw[i].end), CueText(i))]))

\* The text of a freshly generated track: the entries of create_srt_content.
GeneratedTrack(raw) ==
  Concat([i \in 1..Len(raw) |->
    generate_subtitle_entry(i, Duration(raw[i].start), Duration(raw[i].end),
                            CueText(i))])

(***************************************************************************)
(* Fragment coalescer: chunk files                                         *)
(***************************************************************************)
DotJson == Text(<<".", "j", "s", "o", "n">>)

\* re.search(r'(\d{6})_(\d{6})\.json$', filename): the match's group(1), or
\* a failure when the name does not end in the pattern; $ is the end of the
\* name, or the place before a newline that ends it.
FilenameMatch(filename) ==
  With(IF Len(filename) > 0 /\ filename[Len(filename)] = NL
       THEN SubSeq(filename, 1, Len(filename) - 1)
       ELSE filename, LAMBDA name :
    IF Len(name) < 18 THEN Raise("no match")
    ELSE With(SubSeq(name, Len(name) - 17, Len(name)), LAMBDA tail :
      IF /\ IsDigits(SubSeq(tail, 1, 6))
         /\ tail[7] = ord("_")
         /\ IsDigits(SubSeq(tail, 8, 13))
         /\ SubSeq(tail, 14, 18) = DotJson
      THEN Return(SubSeq(tail, 1, 6))
      ELSE Raise("no match")))

\* The offset in seconds read from a chunk's file name, when it has one.
extract_time_from_filename(filename) ==
  With(FilenameMatch(filename), LAMBDA match :
    IF match.ok
    THEN With(StrToInt(match.val), LAMBDA time_segment :
           LET hours == time_segment \div 10000
               remainder == time_segment % 10000
               minutes == remainder \div 100
               seconds == remainder % 100
           IN Return(hours * 3600 + minutes * 60 + seconds))
    ELSE Raise("None"))

\* The segments of one chunk file, shifted by its offset if it has one.
ShiftedSegments(json_file) ==
  With(extract_time_from_filename(json_file.name), LAMBDA offset :
    IF offset.ok
    THEN [k \in DOMAIN json_file.segments |->
            [json_file.segments[k] EXCEPT
               !.start = [@ EXCEPT !.sec = @ + offset.val],
               !.end = [@ EXCEPT !.sec = @ + offset.val]]]
    ELSE json_file.segments)

\* The loop of lines 36-44: every file's segments, in file order, from the
\* k-th file on.
RECURSIVE AllSegmentsFrom(_, _)
AllSegmentsFrom(files, k) ==
  IF k > Len(files) THEN <<>>
  ELSE ShiftedSegments(files[k]) \o AllSegmentsFrom(files, k + 1)

AllSegments(files) == AllSegmentsFrom(files, 1)

\* None, for a text and for a time.
NoText == <<-1>>
NoTime == [sec |-> -1, us |-> -1]

\* "hhmmss_hhmmss.json" for a chunk of two seconds starting at hour h, second s.
ChunkName(h, s) ==
  ZeroPad(IntToStr(h * 10000 + s), 6) \o Text(<<"_">>)
    \o ZeroPad(IntToStr(h * 10000 + s + 2), 6) \o DotJson

\* The file names of the chunks, in the order sorted() gives them; the last
\* one does not carry a time.
ChunkNames ==
  <<ChunkName(0, 0), ChunkName(0, 2), ChunkName(24, 0),
    Text(<<"c", "h", "u", "n", "k">>) \o DotJson>>

\* The most fragments the chunk files hold together.
MaxFragments == 3

\* The k-th segment of a chunk file as the recogniser wrote it: one second
\* long, counted from the start of the chunk.
LocalSegment(k, text) ==
  [start |-> Duration(k - 1), end |-> Duration(k), text |-> text]

\* Two chunk files holding the fragments with the given texts: the first
\* split of them in the first file, the rest in the second.
TwoChunks(name1, name2, texts, split) ==
  << [name |-> name1,
      segments |-> [k \in 1..split |-> LocalSegment(k, texts[k])]],
     [name |-> name2,
      segments |-> [k \in 1..(Len(texts) - split) |->
                      LocalSegment(k, texts[split + k])]] >>

VARIABLES
  pc,                  \* the position of the operation under way
  srt1_content,        \* merge_srt_content: the existing track's text
  srt2_content,        \* merge_srt_content: the new track's text
  merged_srt_content,  \* merge_srt_content: its result (returned or raised)
  json_files,          \* create_srt_content: the chunk files, in order
  segments,            \* create_srt_content: the fragments of all chunks
  pos,                 \* create_srt_content: the next fragment of the loop
  index,               \* create_srt_content: the index of the open run
  current_text,        \* create_srt_content: the text of the open run
  start_time,          \* create_srt_content: the start of the open run
  end_time,            \* create_srt_content: the end of the open run
  entries,             \* create_srt_content: the entries emitted so far
  srt_content,         \* process_directory: the track to write
  merge_subtitles,     \* process_directory: the merge flag
  output_file,         \* the file at output_path: [exists, content]
  original_file,       \* the file at output_path when the run began
  opened_for_writing,  \* whether open(output_path, 'w') has opened the file
  read_error,          \* what reading output_path raises, "none" if nothing
  open_error,          \* what opening output_path for writing raises
  error,               \* the exception process_directory caught and logged
  time_in_seconds,     \* time codec: the duration to encode
  srt_time,            \* time codec: convert_to_srt_time's text
  parsed_time,         \* time codec: parse_time_range's result
  time_str,            \* time codec: time_to_str's text
  subtitles,           \* format codec: the track to serialize
  track_text,          \* format codec: the serialized track
  parsed_track         \* format codec: parse_srt's result

mergeVars == <<srt1_content, srt2_content, merged_srt_content>>
coalesceVars ==
  <<json_files, segments, pos, index, current_text, start_time, end_time,
    entries, srt_content>>
outputVars == <<merge_subtitles, output_file, original_file,
                opened_for_writing, read_error, open_error, error>>
codecVars == <<time_in_seconds, srt_time, parsed_time, time_str>>
formatVars == <<subtitles, track_text, parsed_track>>
vars == <<pc, mergeVars, coalesceVars, outputVars, codecVars, formatVars>>

NoFile == [exists |-> FALSE, content |-> <<>>]
File(content) == [exists |-> TRUE, content |-> content]

\* The variables of an operation that is not under way.
IdleMerge ==
  /\ srt1_content = <<>>
  /\ srt2_content = <<>>
  /\ merged_srt_content = Raise("pending")

IdleCoalesce ==
  /\ json_files = <<>>
  /\ segments = <<>>
  /\ pos = 0
  /\ index = 0
  /\ current_text = NoText
  /\ start_time = NoTime
  /\ end_time = NoTime
  /\ entries = <<>>
  /\ srt_content = <<>>

IdleOutput ==
  /\ merge_subtitles = FALSE
  /\ output_file = NoFile
  /\ original_file = NoFile
  /\ opened_for_writing = FALSE
  /\ read_error = "none"
  /\ open_error = "none"
  /\ error = "none"

IdleCodec ==
  /\ time_in_seconds = NoTime
  /\ srt_time = <<>>
  /\ parsed_time = Raise("pending")
  /\ time_str = <<>>

IdleFormat ==
  /\ subtitles = <<>>
  /\ track_text = <<>>
  /\ parsed_track = Raise("pending")

(***************************************************************************)
(* merge_srt_content as a function of its two arguments                    *)
(***************************************************************************)
InitMerge ==
  /\ pc = "merge"
  /\ \E n1 \in 0..MaxCues :
       \E n2 \in 0..(MaxCues - n1) :
         \E raw1 \in [1..n1 -> Intervals], raw2 \in [1..n2 -> Intervals],
            shift \in IndexShifts :
           /\ srt1_content = ExistingFile(raw1, shift)
           /\ srt2_content = GeneratedTrack(raw2)
  /\ merged_srt_content = Raise("pending")
  /\ IdleCoalesce
  /\ IdleOutput
  /\ IdleCodec
  /\ IdleFormat

Merge ==
  /\ pc = "merge"
  /\ merged_srt_content' = merge_srt_content(srt1_content, srt2_content)
  /\ pc' = "merged"
  /\ UNCHANGED <<srt1_content, srt2_content, coalesceVars, outputVars,
                 codecVars, formatVars>>

NextMerge == Merge

SpecMerge == InitMerge /\ [][NextMerge]_vars

(***************************************************************************)
(* create_srt_content                                                      *)
(***************************************************************************)
\* Lines 35-50: the chunk files are read and the loop variables set.
LoadChunks ==
  /\ pc = "load"
  /\ segments' = AllSegments(json_files)
  /\ pos' = 1
  /\ index' = 1
  /\ current_text' = NoText
  /\ start_time' = NoTime
  /\ end_time' = NoTime
  /\ entries' = <<>>
  /\ pc' = "loop"
  /\ UNCHANGED <<json_files, srt_content, mergeVars, outputVars, codecVars,
                 formatVars>>

\* Lines 53-58: a fragment with another text closes the run and opens one.
LoopNewRun ==
  /\ pc = "loop"
  /\ pos <= Len(segments)
  /\ current_text # NoText /\ current_text # segments[pos].text
  /\ entries' = Append(entries,
       generate_subtitle_entry(index, start_time, end_time, current_text))
  /\ index' = index + 1
  /\ current_text' = segments[pos].text
  /\ start_time' = segments[pos].start
  /\ end_time' = segments[pos].end
  /\ pos' = pos + 1
  /\ UNCHANGED <<pc, json_files, segments, srt_content, mergeVars, outputVars,
                 codecVars, formatVars>>

\* Lines 59-63 with line 63 inside the test of line 60: a fragment with the
\* run's text does not move the run's end.
LoopExtend_EndOfFirst ==
  /\ pc = "loop"
  /\ pos <= Len(segments)
  /\ ~(current_text # NoText /\ current_text # segments[pos].text)
  /\ current_text' = IF current_text = NoText THEN segments[pos].text
                     ELSE current_text
  /\ start_time' = IF current_text = NoText THEN segments[pos].start
                   ELSE start_time
  /\ end_time' = IF current_text = NoText THEN segments[pos].end ELSE end_time
  /\ pos' = pos + 1
  /\ UNCHANGED <<pc, json_files, segments, index, entries, srt_content,
                 mergeVars, outputVars, codecVars, formatVars>>

\* Lines 59-63: the first fragment opens a run; one with the run's text
\* extends it.
LoopExtend ==
  /\ pc = "loop"
  /\ pos <= Len(segments)
  /\ ~(current_text # NoText /\ current_text # segments[pos].text)
  /\ current_text' = IF current_text = NoText THEN segments[pos].text
                     ELSE current_text
  /\ start_time' = IF current_text = NoText THEN segments[pos].start
                   ELSE start_time
  /\ end_time' = segments[pos].end
  /\ pos' = pos + 1
  /\ UNCHANGED <<pc, json_files, segments, index, entries, srt_content,
                 mergeVars, outputVars, codecVars, formatVars>>

\* Lines 65-68: the open run is closed and the entries are joined.
Finish ==
  /\ pc = "loop"
  /\ pos > Len(segments)
  /\ entries' = IF current_text # NoText
                THEN Append(entries, generate_subtitle_entry(
                       index, start_time, end_time, current_text))
                ELSE entries
  /\ srt_content' = Concat(entries')
  /\ pc' = "generated"
  /\ UNCHANGED <<json_files, segments, pos, index, current_text, start_time,
                 end_time, mergeVars, outputVars, codecVars, formatVars>>

InitCoalesce ==
  /\ pc = "load"
  /\ \E n \in 0..MaxFragments :
       \E texts \in [1..n -> Texts], split \in 0..n,
          f1, f2 \in DOMAIN ChunkNames :
         /\ ChunkNames[f1] # ChunkName(24, 0)
         /\ ChunkNames[f2] # ChunkName(24, 0)
         /\ json_files = TwoChunks(ChunkNames[f1], ChunkNames[f2], texts, split)
  /\ segments = <<>>
  /\ pos = 0
  /\ index = 0
  /\ current_text = NoText
  /\ start_time = NoTime
  /\ end_time = NoTime
  /\ entries = <<>>
  /\ srt_content = <<>>
  /\ IdleMerge
  /\ IdleOutput
  /\ IdleCodec
  /\ IdleFormat

NextCoalesce == LoadChunks \/ LoopNewRun \/ LoopExtend \/ Finish

SpecCoalesce == InitCoalesce /\ [][NextCoalesce]_vars

(***************************************************************************)
(* Track merger: properties                                                *)
(***************************************************************************)
\* The cues of the two input tracks and of the merged track.
ExistingCues == parse_srt(srt1_content).val
NewCues == parse_srt(srt2_content).val
MergedCues == parse_srt(merged_srt_content.val).val
MergeReturned == pc = "merged" /\ merged_srt_content.ok

\* A cue without its index.
Content(sub) == <<sub.start, sub.end, sub.text>>
Contents(subs) == [i \in DOMAIN subs |-> Content(subs[i])]
Count(subs, c) == Cardinality({i \in DOMAIN subs : Content(subs[i]) = c})
StrictlyOverlap(a, b) == TimeLT(a.start, b.end) /\ TimeLT(b.start, a.end)
OverlappedBy(e, new) == \E j \in DOMAIN new : StrictlyOverlap(e, new[j])
NonOverlapping(subs) ==
  \A i, j \in DOMAIN subs : i < j => TimeLE(subs[i].end, subs[j].start)
WellFormedCues(subs) ==
  \A i \in DOMAIN subs : TimeLE(subs[i].start, subs[i].end)
OrderedByStart(subs) ==
  \A i, j \in DOMAIN subs : i < j => TimeLE(subs[i].start, subs[j].start)
IndexedFromOne(subs) ==
  \A i \in DOMAIN subs : subs[i].index.repr = IntToStr(i)

\* Every cue of new is in merged with its start, end and text.
EveryCueAppears(new, merged) ==
  \A j \in DOMAIN new :
    \E i \in DOMAIN merged : Content(merged[i]) = Content(new[j])

\* C1 (as stated): every cue of the new track appears in the merged track
\* with its start, end and text, also when two new cues overlap each other.
C1_EveryNewCueAppears ==
  MergeReturned => EveryCueAppears(NewCues, MergedCues)

\* The copies of an existing cue's content in merged are those of existing,
\* or none when a cue of new strictly overlaps it, and those new brings;
\* every cue of merged has the content of a cue of existing or of new.
SurvivorsAreTheNotOverlapped(existing, new, merged) ==
  /\ \A e \in DOMAIN existing :
       \E kept \in {IF OverlappedBy(existing[e], new) THEN 0
                    ELSE Count(existing, Content(existing[e]))} :
         /\ Count(merged, Content(existing[e])) >= kept
         /\ Count(merged, Content(existing[e]))
              <= kept + Count(new, Content(existing[e]))
  /\ \A i \in DOMAIN merged :
       Count(existing, Content(merged[i])) + Count(new, Content(merged[i])) > 0

\* C2: an existing cue survives the merge exactly when no new cue strictly
\* overlaps it, survivors keep start, end and text, an overlapped cue is
\* removed whole, and every merged cue is some input cue.
C2_ExistingSurvivesIffNotOverlapped ==
  MergeReturned =>
    SurvivorsAreTheNotOverlapped(ExistingCues, NewCues, MergedCues)

\* Of two cues of existing, one overlapped by a cue of new is not in merged
\* and one that only touches a cue of new is.
OverlappedGoneTouchingKept(existing, new, merged) ==
  \E e1, e2 \in DOMAIN existing :
    /\ OverlappedBy(existing[e1], new)
    /\ Count(merged, Content(existing[e1])) = 0
    /\ ~OverlappedBy(existing[e2], new)
    /\ \E j \in DOMAIN new : existing[e2].start = new[j].end
    /\ Count(merged, Content(existing[e2])) = 1

\* C2's case: of two existing cues, one overlapped by a new cue is gone and
\* one that only touches it is still there.
C2_Witness ==
  /\ MergeReturned
  /\ OverlappedGoneTouchingKept(ExistingCues, NewCues, MergedCues)

\* Two well-formed, non-overlapping tracks give a non-overlapping track.
NonOverlappingKept(existing, new, merged) ==
  (/\ WellFormedCues(existing) /\ NonOverlapping(existing)
   /\ WellFormedCues(new) /\ NonOverlapping(new))
    => NonOverlapping(merged)

\* C3 (as stated): two well-formed, non-overlapping input tracks merge into
\* a track in which cue[i].end <= cue[j].start for all i < j.
C3_MergedTrackNonOverlapping ==
  MergeReturned => NonOverlappingKept(ExistingCues, NewCues, MergedCues)

OrderedAndIndexed(merged) == OrderedByStart(merged) /\ IndexedFromOne(merged)

\* C4 (as stated): the merged track is ordered by start and indexed 1..n,
\* whatever the existing track's order and index tokens, also when the new
\* track is empty.
C4_MergedOrderedAndIndexed == MergeReturned => OrderedAndIndexed(MergedCues)

\* A well-formed, ordered, non-overlapping track indexed 1..n merged into
\* itself gives its own cues, indexed 1..n.
SelfMergeIsIdentity(existing, new, merged) ==
  (/\ existing = new
   /\ WellFormedCues(new) /\ OrderedByStart(new)
   /\ NonOverlapping(new) /\ IndexedFromOne(new))
    => /\ Contents(merged) = Contents(new)
       /\ IndexedFromOne(merged)

\* C5 (as stated): a well-formed, ordered, non-overlapping track indexed
\* 1..n merged into itself yields the same cues, indexed 1..n.
C5_MergeIntoItselfIsIdentity ==
  MergeReturned => SelfMergeIsIdentity(ExistingCues, NewCues, MergedCues)

(***************************************************************************)
(* Fragment coalescer: properties                                          *)
(***************************************************************************)
\* The positions where a maximal run of equal text begins.
RunStarts ==
  {k \in 1..Len(segments) : k = 1 \/ segments[k].text # segments[k - 1].text}
NumRuns == Cardinality(RunStarts)
RunStart(r) == CHOOSE k \in RunStarts : Cardinality({j \in RunStarts : j <= k}) = r
RunEnd(r) == IF r = NumRuns THEN Len(segments) ELSE RunStart(r + 1) - 1
RunEntry(r) ==
  generate_subtitle_entry(r, segments[RunStart(r)].start,
                          segments[RunEnd(r)].end, segments[RunStart(r)].text)

\* C6: the coalescer emits one cue per maximal run of equal text, in run
\* order: the r-th has index r, the run's text, the start of the run's first
\* fragment and the end of its last; no fragments, no cues.
C6_OneCuePerMaximalRun ==
  pc = "generated" =>
    /\ entries = [r \in 1..NumRuns |-> RunEntry(r)]
    /\ srt_content = Concat([r \in 1..NumRuns |-> RunEntry(r)])

\* C6's case: three fragments in two runs, one of them of two fragments.
C6_Witness ==
  /\ pc = "generated"
  /\ Len(segments) = 3
  /\ NumRuns = 2
  /\ Len(entries) = 2

GeneratedCues == parse_srt(srt_content).val

\* C10 (as stated): when every fragment has start <= end, every cue the
\* coalescer emits has start <= end.
C10_EmittedCuesWellFormed ==
  (/\ pc = "generated"
   /\ \A k \in DOMAIN segments : segments[k].start.sec <= segments[k].end.sec)
    => WellFormedCues(GeneratedCues)

(***************************************************************************)
(* process_directory                                                       *)
(***************************************************************************)
\* A file opened with mode 'r' and encoding 'utf-8' gives file.read() its
\* text with universal newlines: "\r\n" and a lone "\r" are read as "\n".
\* This is the text from the i-th character on.
RECURSIVE ReadTextFrom(_, _)
ReadTextFrom(s, i) ==
  IF i > Len(s) THEN <<>>
  ELSE IF s[i] # CR THEN <<s[i]>> \o ReadTextFrom(s, i + 1)
  ELSE IF i < Len(s) /\ s[i + 1] = NL THEN <<NL>> \o ReadTextFrom(s, i + 2)
  ELSE <<NL>> \o ReadTextFrom(s, i + 1)

ReadText(content) == With(content, LAMBDA s : ReadTextFrom(s, 1))

\* The characters UTF-8 does not encode: the surrogates U+D800 to U+DFFF.
\* json.load gives one for an escape such as "\ud800" in a segment's text.
Surrogates == 55296..57343

\* Whether write() can encode the text for a file opened with 'utf-8'.
Encodes(text) == \A i \in 1..Len(text) : text[i] \notin Surrogates

\* Lines 164-169 when the merge flag is off or there is no file to merge.
SkipMerge ==
  /\ pc = "generated"
  /\ ~(merge_subtitles /\ output_file.exists)
  /\ pc' = "open"
  /\ UNCHANGED <<mergeVars, coalesceVars, outputVars, codecVars, formatVars>>

\* Lines 167-168, 175-176: opening or reading the existing file raises; the
\* exception is logged.
ReadFails ==
  /\ pc = "generated"
  /\ merge_subtitles /\ output_file.exists
  /\ read_error # "none"
  /\ error' = read_error
  /\ pc' = "done"
  /\ UNCHANGED <<merge_subtitles, output_file, original_file,
                 opened_for_writing, read_error, open_error, mergeVars,
                 coalesceVars, codecVars, formatVars>>

\* Lines 164-169: the existing file is read and merged with the new track.
MergeExisting ==
  /\ pc = "generated"
  /\ merge_subtitles /\ output_file.exists
  /\ read_error = "none"
  /\ \E existing_srt_content \in {ReadText(output_file.content)} :
       \E merged \in {merge_srt_content(existing_srt_content, srt_content)} :
         /\ merged.ok
         /\ srt1_content' = existing_srt_content
         /\ srt2_content' = srt_content
         /\ merged_srt_content' = merged
         /\ srt_content' = merged.val
  /\ pc' = "open"
  /\ UNCHANGED <<json_files, segments, pos, index, current_text, start_time,
                 end_time, entries, outputVars, codecVars, formatVars>>

\* Lines 169, 175-176 with the open of line 171 moved before the merge: the
\* file is already truncated when merge_srt_content raises.
MergeFails_AfterOpen ==
  /\ pc = "generated"
  /\ merge_subtitles /\ output_file.exists
  /\ read_error = "none"
  /\ open_error = "none"
  /\ \E existing_srt_content \in {ReadText(output_file.content)} :
       \E merged \in {merge_srt_content(existing_srt_content, srt_content)} :
         /\ ~merged.ok
         /\ srt1_content' = existing_srt_content
         /\ srt2_content' = srt_content
         /\ merged_srt_content' = merged
         /\ error' = merged.exc
  /\ output_file' = File(<<>>)
  /\ opened_for_writing' = TRUE
  /\ pc' = "done"
  /\ UNCHANGED <<merge_subtitles, original_file, read_error, open_error,
                 coalesceVars, codecVars, formatVars>>

\* Lines 169, 175-176: merge_srt_content raises; the exception is logged.
MergeFails ==
  /\ pc = "generated"
  /\ merge_subtitles /\ output_file.exists
  /\ read_error = "none"
  /\ \E existing_srt_content \in {ReadText(output_file.content)} :
       \E merged \in {merge_srt_content(existing_srt_content, srt_content)} :
         /\ ~merged.ok
         /\ srt1_content' = existing_srt_content
         /\ srt2_content' = srt_content
         /\ merged_srt_content' = merged
         /\ error' = merged.exc
  /\ pc' = "done"
  /\ UNCHANGED <<merge_subtitles, output_file, original_file,
                 opened_for_writing, read_error, open_error, coalesceVars,
                 codecVars, formatVars>>

\* Line 171: open(output_path, 'w') creates or truncates the file.
OpenForWriting ==
  /\ pc = "open"
  /\ open_error = "none"
  /\ output_file' = File(<<>>)
  /\ opened_for_writing' = TRUE
  /\ pc' = "write"
  /\ UNCHANGED <<merge_subtitles, original_file, read_error, open_error,
                 error, mergeVars, coalesceVars, codecVars, formatVars>>

\* Lines 171, 175-176: open(output_path, 'w') raises; no file is created or
\* truncated, and the exception is logged.
OpenFails ==
  /\ pc = "open"
  /\ open_error # "none"
  /\ error' = open_error
  /\ pc' = "done"
  /\ UNCHANGED <<merge_subtitles, output_file, original_file,
                 opened_for_writing, read_error, open_error, mergeVars,
                 coalesceVars, codecVars, formatVars>>

\* Lines 173-174: the stripped track is written and the file closed.
WriteAndClose ==
  /\ pc = "write"
  /\ \E text \in {Strip(srt_content)} :
       /\ Encodes(text)
       /\ output_file' = File(text)
  /\ pc' = "done"
  /\ UNCHANGED <<merge_subtitles, original_file, opened_for_writing,
                 read_error, open_error, error, mergeVars, coalesceVars,
                 codecVars, formatVars>>

\* Lines 173, 175-176: write() cannot encode the track and raises before
\* anything reaches the file, which line 171 has emptied; the exception is
\* logged.
WriteFails ==
  /\ pc = "write"
  /\ ~Encodes(Strip(srt_content))
  /\ error' = "UnicodeEncodeError"
  /\ pc' = "done"
  /\ UNCHANGED <<merge_subtitles, output_file, original_file,
                 opened_for_writing, read_error, open_error, mergeVars,
                 coalesceVars, codecVars, formatVars>>

\* ExistingFile with the line endings "\r\n", and with "\r".
WithLineEnding(content, ending) == Join(Split(content, <<NL>>), ending)

\* What output_path may hold when the run begins: nothing, a track of one
\* or two cues, one with the line endings "\r\n" and one with "\r", a track
\* this program wrote from a chunk of hour 24, a block of a single line, a
\* time range with a wrong separator.
OutputFiles ==
  { NoFile,
    File(ExistingFile(<<[start |-> 0, end |-> 1]>>, 0)),
    File(WithLineEnding(ExistingFile(<<[start |-> 0, end |-> 1]>>, 0),
                        <<CR, NL>>)),
    File(WithLineEnding(ExistingFile(<<[start |-> 1, end |-> 1]>>, 0),
                        <<CR>>)),
    File(ExistingFile(<<[start |-> 0, end |-> 1], [start |-> 5, end |-> 6]>>, 0)),
    File(Strip(generate_subtitle_entry(1, Duration(86400), Duration(86401),
                                       CueText(1)))),
    File(Text(<<"1">>)),
    File(Text(<<"1", "\n">>) \o time_to_str(TimeOfDay(0))
           \o Text(<<" ", "-", ">", " ">>)
           \o time_to_str(TimeOfDay(1)) \o <<NL>> \o CueText(1)) }

\* A lone surrogate, as json.load gives for the escape "\ud800".
LoneSurrogate == <<CHOOSE c \in Surrogates : \A d \in Surrogates : c <= d>>

\* The texts of n fragments: CueText of each, or those with a lone
\* surrogate after the last.
FragmentTexts(n) ==
  { [k \in 1..n |-> CueText(k)],
    [k \in 1..n |-> IF k = n THEN CueText(k) \o LoneSurrogate ELSE CueText(k)] }

\* What reading the file at output_path can raise: it may not be read, or
\* its bytes are not UTF-8.
ReadErrors == {"PermissionError", "UnicodeDecodeError"}

\* What open(output_path, 'w') can raise: its directory is missing, or the
\* file or the directory may not be written.
OpenErrors == {"FileNotFoundError", "PermissionError"}

\* json_files is sorted(os.listdir(TMP_DIR)): two chunk files whose names
\* ascend.
Init ==
  /\ pc = "load"
  /\ \E n \in 0..MaxFragments :
       \E split \in 0..n, f1, f2 \in DOMAIN ChunkNames, texts \in FragmentTexts(n) :
         /\ f1 < f2
         /\ json_files =
              TwoChunks(ChunkNames[f1], ChunkNames[f2], texts, split)
  /\ segments = <<>>
  /\ pos = 0
  /\ index = 0
  /\ current_text = NoText
  /\ start_time = NoTime
  /\ end_time = NoTime
  /\ entries = <<>>
  /\ srt_content = <<>>
  /\ merge_subtitles \in BOOLEAN
  /\ output_file \in OutputFiles
  /\ original_file = output_file
  /\ opened_for_writing = FALSE
  /\ read_error \in {"none"} \cup {e \in ReadErrors : output_file.exists}
  /\ open_error \in {"none"}
       \cup {e \in OpenErrors : e = "FileNotFoundError" => ~output_file.exists}
  /\ error = "none"
  /\ IdleMerge
  /\ IdleCodec
  /\ IdleFormat

Next ==
  \/ LoadChunks
  \/ LoopNewRun
  \/ LoopExtend
  \/ Finish
  \/ SkipMerge
  \/ ReadFails
  \/ MergeExisting
  \/ MergeFails
  \/ OpenForWriting
  \/ OpenFails
  \/ WriteAndClose
  \/ WriteFails

Spec == Init /\ [][Next]_vars

\* merge_srt_content was called and raised.
MergeRaised == ~merged_srt_content.ok /\ merged_srt_content.exc # "pending"

\* C7: when merging fails (a malformed block or timestamp in either track),
\* the existing file is as it was, character for character, and was never
\* opened for writing.
C7_FailedMergeLeavesFileUntouched ==
  MergeRaised =>
    /\ output_file = original_file
    /\ ~opened_for_writing

\* C7's case: a run with the merge flag set on an existing file, which has
\* cue blocks, ended with merge_srt_content raising on a malformed block or
\* timestamp.
C7_Witness ==
  /\ pc = "done"
  /\ merge_subtitles
  /\ original_file.exists
  /\ Len(original_file.content) > 1
  /\ MergeRaised
  /\ error = merged_srt_content.exc
  /\ error \in {"ValueError", "IndexError"}

(***************************************************************************)
(* Time codec: encode, decode, encode again                                *)
(***************************************************************************)
\* Durations run up to MaxHour hours.
MaxHour == 25

CodecDurations ==
  {[sec |-> h * 3600 + m * 60 + sc, us |-> ms * 1000 + r] :
     h \in 0..MaxHour, m \in {0, 59}, sc \in {0, 59}, ms \in {0, 1, 999},
     r \in {0, 999}}

InitCodec ==
  /\ pc = "encode"
  /\ time_in_seconds \in CodecDurations
  /\ srt_time = <<>>
  /\ parsed_time = Raise("pending")
  /\ time_str = <<>>
  /\ IdleMerge
  /\ IdleCoalesce
  /\ IdleOutput
  /\ IdleFormat

Encode ==
  /\ pc = "encode"
  /\ srt_time' = convert_to_srt_time(time_in_seconds)
  /\ pc' = "decode"
  /\ UNCHANGED <<time_in_seconds, parsed_time, time_str, mergeVars,
                 coalesceVars, outputVars, formatVars>>

\* The time-range line of an entry that starts and ends at the duration.
Decode ==
  /\ pc = "decode"
  /\ parsed_time' = parse_time_range(srt_time \o Arrow \o srt_time)
  /\ pc' = "decoded"
  /\ UNCHANGED <<time_in_seconds, srt_time, time_str, mergeVars, coalesceVars,
                 outputVars, formatVars>>

Reencode ==
  /\ pc = "decoded"
  /\ parsed_time.ok
  /\ time_str' = time_to_str(parsed_time.val[1])
  /\ pc' = "reencoded"
  /\ UNCHANGED <<time_in_seconds, srt_time, parsed_time, mergeVars,
                 coalesceVars, outputVars, formatVars>>

NextCodec == Encode \/ Decode \/ Reencode

SpecCodec == InitCodec /\ [][NextCodec]_vars

\* The duration a datetime.time stands for, as [sec, us].
DurationOfTime(t) ==
  [sec |-> t.hour * 3600 + t.minute * 60 + t.second, us |-> t.microsecond]

\* C8 (as stated): for every duration of whole milliseconds, of 24 hours or
\* more too, decoding the encoded timestamp succeeds and gives the duration
\* back, and encoding that again gives the same text.
C8_TimeCodecRoundTrip ==
  time_in_seconds.us % 1000 = 0 =>
    /\ pc \in {"decoded", "reencoded"} =>
         /\ parsed_time.ok
         /\ DurationOfTime(parsed_time.val[1]) = time_in_seconds
    /\ pc = "reencoded" => time_str = srt_time

(***************************************************************************)
(* Format codec: serialize a track, parse it back                          *)
(***************************************************************************)
\* The longest track serialized.
MaxTrack == 2

\* Cue texts: one line, two lines, an empty line between two, a leading
\* space, a trailing space, a trailing carriage return.
FormatTexts ==
  { Text(<<"a">>), Text(<<"a", "\n", "b">>), Text(<<"a", "\n", "\n", "b">>),
    Text(<<" ", "a">>), Text(<<"a", " ">>), Text(<<"a", "\r">>) }

\* Cue times: whole milliseconds up to the end of the day, and one with
\* microseconds as a six-digit fraction in a file gives them.
FormatSpans ==
  { [start |-> TimeOfDay(0),
     end |-> [hour |-> 0, minute |-> 0, second |-> 1, microsecond |-> 500000]],
    [start |-> [hour |-> 0, minute |-> 0, second |-> 1, microsecond |-> 500000],
     end |-> [hour |-> 23, minute |-> 59, second |-> 59, microsecond |-> 999000]],
    [start |-> TimeOfDay(0),
     end |-> [hour |-> 0, minute |-> 0, second |-> 1, microsecond |-> 500500]] }

\* The index of a track's i-th cue: the int re-indexing assigned, or the
\* token a parse read.
IndexOfType(type, i) == IF type = "int" THEN IntIndex(i) ELSE StrIndex(IntToStr(i))

InitFormat ==
  /\ pc = "serialize"
  /\ \E n \in 0..MaxTrack :
       \E spans \in [1..n -> FormatSpans], texts \in [1..n -> FormatTexts],
          type \in {"int", "str"} :
         subtitles = [i \in 1..n |->
           Subtitle(IndexOfType(type, i), spans[i].start, spans[i].end, texts[i])]
  /\ track_text = <<>>
  /\ parsed_track = Raise("pending")
  /\ IdleMerge
  /\ IdleCoalesce
  /\ IdleOutput
  /\ IdleCodec

\* Line 124: the blocks joined by a blank line.
Serialize ==
  /\ pc = "serialize"
  /\ track_text' = JoinBlocks(subtitles)
  /\ pc' = "parse"
  /\ UNCHANGED <<subtitles, parsed_track, mergeVars, coalesceVars, outputVars,
                 codecVars>>

Parse ==
  /\ pc = "parse"
  /\ parsed_track' = parse_srt(track_text)
  /\ pc' = "parsed"
  /\ UNCHANGED <<subtitles, track_text, mergeVars, coalesceVars, outputVars,
                 codecVars>>

NextFormat == Serialize \/ Parse

SpecFormat == InitFormat /\ [][NextFormat]_vars

\* Every time of the track is a whole number of milliseconds.
WholeMilliseconds(subs) ==
  \A i \in DOMAIN subs :
    /\ subs[i].start.microsecond % 1000 = 0
    /\ subs[i].end.microsecond % 1000 = 0

\* The parsed track has as many cues as subs, each equal to the original in
\* start, end and text, with the original index rendered as its token.
SameTrack(parsed, subs) ==
  /\ parsed.ok
  /\ Len(parsed.val) = Len(subs)
  /\ \A i \in DOMAIN subs :
       /\ parsed.val[i].index.repr = subs[i].index.repr
       /\ parsed.val[i].start = subs[i].start
       /\ parsed.val[i].end = subs[i].end
       /\ parsed.val[i].text = subs[i].text

\* C9 (as stated): parsing the serialized track gives as many cues, each
\* equal to the original in index, start, end and text, also when a cue's
\* text has an empty line or leading or trailing whitespace.
C9_FormatRoundTrip ==
  (pc = "parsed" /\ WholeMilliseconds(subtitles)) =>
    SameTrack(parsed_track, subtitles)

\* No cue text has an empty line or leading or trailing whitespace.
PlainTexts(subs) ==
  \A i \in DOMAIN subs :
    /\ Strip(subs[i].text) = subs[i].text
    /\ Occurrences(subs[i].text, <<NL, NL>>) = {}

\* C9 (amended): when no cue text has an empty line or leading or trailing
\* whitespace, parsing the serialized track gives as many cues, each equal
\* to the original in index (as rendered), start, end and text.
C9_FormatRoundTripPlainText ==
  (pc = "parsed" /\ WholeMilliseconds(subtitles) /\ PlainTexts(subtitles)) =>
    SameTrack(parsed_track, subtitles)

\* C9's case: a track of two cues, one of two lines, was serialized and
\* parsed back.
C9_Witness ==
  /\ pc = "parsed"
  /\ WholeMilliseconds(subtitles)
  /\ PlainTexts(subtitles)
  /\ Len(subtitles) = 2
  /\ \E i \in DOMAIN subtitles : Len(Split(subtitles[i].text, <<NL>>)) = 2
  /\ parsed_track.ok

====
